---- MODULE Spec2Model ----
(***************************************************************************)
(* kaoliang: a reverse proxy in front of an S3-compatible gateway.  The    *)
(* response hook of ReverseProxy classifies every upstream response and    *)
(* either publishes a bucket notification (sendEvent) or launches the NFS  *)
(* export provisioner (handleNfsExport) in a goroutine.                    *)
(*                                                                         *)
(* Go strings are modelled as sequences of symbols; the symbol "/" is the  *)
(* path separator, every other symbol stands for a run of characters that  *)
(* holds no separator.                                                     *)
(***************************************************************************)
EXTENDS Integers, Sequences, FiniteSets, TLC

VARIABLES
    dump,       \* the ops-log dump tool: its clock reading, the pool, its progress
    writers,    \* PutBucketNotification handlers running side by side
    applied,    \* the writers whose Set reached the cache, in cache order
    cacheUp,    \* models.GetCache(): the cache server answers reads
    cache,      \* models.GetCache(): key "config:<bucket>" -> stored document
    queues,     \* models.GetCache(): list "<service>:<id>:<name>" -> events
    pc,         \* position of the request being served
    req,        \* the client request (c.Request / resp.Request)
    resp,       \* the upstream response handed to modifyResponse
    action,     \* the branch modifyResponse took for this response
    pending,    \* targets the range loop of sendEvent has not visited yet
    err,        \* the variable err of sendEvent
    pushFailed, \* some RPush of this sendEvent failed
    sendResult, \* what sendEvent returned
    written,    \* what has been written to the client for this request
    did,        \* side effects of this request (config read/write, proxy, search)
    nreq,       \* number of requests served so far
    tasks,      \* goroutines started by "go handleNfsExport"
    exports,    \* pool nfs-ganesha: export object name -> user id it was written for
    index,      \* pool nfs-ganesha: the lines of the shared object "export"
    lockHolder, \* the task holding export_append_lock, 0 when free
    crashed     \* a goroutine panicked without recovery

vars == <<dump, writers, applied, cacheUp, cache, queues, pc, req, resp, action, pending, err, pushFailed,
          sendResult, written, did, nreq, tasks, exports, index, lockHolder,
          crashed>>

\* ---------------------------------------------------------------- bounds
MaxRequests == 2
MaxTasks == 2
MaxWriters == 2
MaxGateTasks == 1

\* --------------------------------------------------------------- strings
Slash == "/"

HasPrefix(s, p) == Len(p) <= Len(s) /\ SubSeq(s, 1, Len(p)) = p

HasSuffix(s, x) ==
    Len(x) <= Len(s) /\ SubSeq(s, Len(s) - Len(x) + 1, Len(s)) = x

\* strings.Split(s, "/"): the segments between separators; never empty
RECURSIVE SplitFrom(_, _, _)
SplitFrom(s, i, cur) ==
    IF i > Len(s) THEN <<cur>>
    ELSE IF s[i] = Slash THEN <<cur>> \o SplitFrom(s, i + 1, <<>>)
    ELSE SplitFrom(s, i + 1, Append(cur, s[i]))

Split(s) == SplitFrom(s, 1, <<>>)

\* the request paths the model draws from
PathAdminUser      == <<"/", "admin", "/", "user">>
PathAdminUserSlash == <<"/", "admin", "/", "user", "/">>
PathNestedJpg      == <<"/", "photos", "/", "img", "/", "a", ".jpg">>
PathJpg            == <<"/", "photos", "/", "a", ".jpg">>
PathBucket         == <<"/", "photos">>

ObjectPaths == {PathNestedJpg, PathJpg}
Paths == {PathAdminUser, PathAdminUserSlash, PathBucket} \cup ObjectPaths

Buckets == {<<"photos">>}
\* the buckets the concurrent writers of the config store address
StoreBuckets == {<<"photos">>, <<"docs">>}

\* ---------------------------------------------------------- event names
ObjectCreatedAll    == "s3:ObjectCreated:*"
ObjectCreatedPut    == "s3:ObjectCreated:Put"
ObjectCreatedCopy   == "s3:ObjectCreated:Copy"
ObjectRemovedAll    == "s3:ObjectRemoved:*"
ObjectRemovedDelete == "s3:ObjectRemoved:Delete"

\* event.Name.Expand: a wildcard category stands for its members
Expand(name) ==
    IF name = ObjectCreatedAll THEN {ObjectCreatedPut, ObjectCreatedCopy}
    ELSE IF name = ObjectRemovedAll THEN {ObjectRemovedDelete}
    ELSE {name}

\* --------------------------------------------- targets and rule documents
TargetQ1 == [Service |-> "sqs", ID |-> "t1", Name |-> "q1"]
TargetQ2 == [Service |-> "sqs", ID |-> "t2", Name |-> "q2"]
Targets == {TargetQ1, TargetQ2}

Rule(events, prefix, suffix, targets) ==
    [Events |-> events, Prefix |-> prefix, Suffix |-> suffix, Targets |-> targets]

\* {ObjectCreated:*, suffix .jpg, sqs:t1:q1}
ConfigJpg == {Rule({ObjectCreatedAll}, <<>>, <<".jpg">>, {TargetQ1})}

\* two rules that both reference q1, and a removal rule for q2
ConfigShared ==
    {Rule({ObjectCreatedPut}, <<>>, <<>>, {TargetQ1}),
     Rule({ObjectCreatedAll}, <<"img">>, <<>>, {TargetQ1, TargetQ2}),
     Rule({ObjectRemovedAll}, <<>>, <<".jpg">>, {TargetQ2})}

Configs == {ConfigJpg, ConfigShared}

EmptyConfig == {}

\* event.Rules.Match behind Config.ToRulesMap: the targets of the rules that
\* subscribe to eventType and whose prefix and suffix filters fit objectName
RuleMatches(rule, eventType, objectName) ==
    /\ \E n \in rule.Events : eventType \in Expand(n)
    /\ HasPrefix(objectName, rule.Prefix)
    /\ HasSuffix(objectName, rule.Suffix)

Match(nConfig, eventType, objectName) ==
    UNION {r.Targets : r \in {x \in nConfig : RuleMatches(x, eventType, objectName)}}

\* ------------------------------------------------- notification config store
Nil == "nil"
ErrNone == "ErrNone"
ErrAccessDenied == "ErrAccessDenied"
ErrMalformedXML == "ErrMalformedXML"
errNoSuchNotifications == "errNoSuchNotifications"

\* the cache key fmt.Sprintf("config:%s", bucket)
ConfigKey(bucket) == <<"config:">> \o bucket

\* xml.Marshal(conf): the document stored for a configuration
XmlMarshal(conf) == [root |-> "NotificationConfiguration", rules |-> conf]

MalformedBody == [root |-> "garbage", rules |-> {}]

\* event.ParseConfig: the rules of a well-formed document, an error otherwise
ParseConfig(val) ==
    IF val.root = "NotificationConfiguration"
    THEN [config |-> val.rules, err |-> Nil]
    ELSE [config |-> Nil, err |-> ErrMalformedXML]

\* readNotificationConfig: any failure of the cache lookup, a missing key
\* or a server that does not answer, is "no such notifications"; otherwise
\* whatever ParseConfig says
readNotificationConfig(bucket) ==
    IF ~cacheUp \/ ConfigKey(bucket) \notin DOMAIN cache
    THEN [config |-> Nil, err |-> errNoSuchNotifications]
    ELSE ParseConfig(cache[ConfigKey(bucket)])

\* client.Set reaches the cache: the call succeeds on a server that answers
SetApplied(ok) == ok /\ cacheUp

\* a Set that keeps the document a key already holds
CacheSetKeepFirst(key, val, ok) ==
    IF SetApplied(ok) /\ key \notin DOMAIN cache
    THEN [k \in DOMAIN cache \cup {key} |-> IF k = key THEN val ELSE cache[k]]
    ELSE cache

\* the cache after client.Set(key, val, 0) returned ok / failed
CacheSet(key, val, ok) ==
    IF SetApplied(ok) THEN [k \in DOMAIN cache \cup {key} |-> IF k = key THEN val ELSE cache[k]]
    ELSE cache

\* saveNotificationConfig: marshal, Set, and return nil on every path
saveNotificationConfig(conf, bucket, ok) ==
    [cache |-> CacheSet(ConfigKey(bucket), XmlMarshal(conf), ok), err |-> Nil]

\* ------------------------------------------------------ response classifier
IsAdminUserPath(path) == path = PathAdminUserSlash \/ path = PathAdminUser

checkResponse(rq, rs, method, statusCode) ==
    rq.method = method /\ rs.status = statusCode

NfsExport == "handleNfsExport"
NoAction == "none"

\* the switch with the copy-source case moved above the admin case
ClassifyCopyFirst(rq, rs) ==
    IF rq.copySource THEN ObjectCreatedCopy
    ELSE IF IsAdminUserPath(rq.path) /\ rs.status = 200 THEN NfsExport
    ELSE IF rs.etag /\ checkResponse(rq, rs, "PUT", 200) THEN ObjectCreatedPut
    ELSE IF checkResponse(rq, rs, "DELETE", 204) THEN ObjectRemovedDelete
    ELSE NoAction

\* the switch of modifyResponse: the first case that holds
Classify(rq, rs) ==
    IF IsAdminUserPath(rq.path) /\ rs.status = 200 THEN NfsExport
    ELSE IF rq.copySource THEN ObjectCreatedCopy
    ELSE IF rs.etag /\ checkResponse(rq, rs, "PUT", 200) THEN ObjectCreatedPut
    ELSE IF checkResponse(rq, rs, "DELETE", 204) THEN ObjectRemovedDelete
    ELSE NoAction

\* getObjectName: segments[1] and segments[2] of strings.Split(path, "/");
\* an index out of range panics
getObjectName(rq) ==
    LET segments == Split(rq.path) IN
    IF Len(segments) < 3
    THEN [panic |-> TRUE, bucketName |-> <<>>, objectName |-> <<>>]
    ELSE [panic |-> FALSE, bucketName |-> segments[2], objectName |-> segments[3]]

\* the event.Event built by one iteration of the loop of sendEvent
NewEvent(rq, rs, eventType) ==
    [EventName |-> eventType,
     Bucket    |-> getObjectName(rq).bucketName,
     Key       |-> getObjectName(rq).objectName,
     ETag      |-> rs.etag,
     RequestId |-> nreq]

\* the list key fmt.Sprintf("%s:%s:%s", Service, ID, Name) is the target itself
RPush(t, value, ok) ==
    IF ok THEN [queues EXCEPT ![t] = Append(@, value)] ELSE queues

\* ------------------------------------------------------------ the requests
Methods == {"GET", "PUT", "DELETE"}
Statuses == {200, 204, 404}
\* a parameter list that misses caps
QueryParamsNoCaps == {"subuser", "key", "quota"}
QueryParams == {"subuser", "key", "quota", "caps"}
Queries == {{}, {"key"}}

\* json.Unmarshal of an admin response body into RgwUser
UserBody(user, n) == [valid |-> TRUE, user_id |-> user, keys |-> n]
GarbageBody == [valid |-> FALSE, user_id |-> "", keys |-> 0]
UserBodies == {UserBody("u1", 0), UserBody("u1", 1), UserBody("u1", 2), GarbageBody}

NoReq == [handler |-> "none", method |-> "", path |-> <<>>, copySource |-> FALSE,
          query |-> {}, authErr |-> ErrNone]
NoDump == [pc |-> "main", now |-> "", listed |-> {}, pool |-> {}, todo |-> {},
           statFailed |-> {}, uploaded |-> {}, bulkOk |-> {}]
NoWriter == [pc |-> "idle", bucket |-> <<>>, conf |-> Nil, written |-> <<>>]
NoResp == [status |-> 0, etag |-> FALSE, requestId |-> FALSE, body |-> GarbageBody]

\* one write to the gin context
Wrote(status, kind, code, config, body) ==
    [status |-> status, kind |-> kind, code |-> code, config |-> config, body |-> body]

\* writeErrorResponse(c, errCode)
ErrorResponse(code) == Wrote(403, "error", code, {}, GarbageBody)

Idle == pc \in {"idle", "done", "panicked"}

\* a new request is accepted: the per-request state starts afresh
Accept(rq, w, d, p) ==
    /\ ~crashed
    /\ Idle
    /\ nreq < MaxRequests
    /\ nreq' = nreq + 1
    /\ req' = rq
    /\ resp' = NoResp
    /\ action' = NoAction
    /\ pending' = {}
    /\ err' = Nil
    /\ pushFailed' = FALSE
    /\ sendResult' = "unset"
    /\ written' = w
    /\ did' = d
    /\ pc' = p

\* authenticate + "if err != cmd.ErrNone { writeErrorResponse(c, err) }"
\* with no return: what the handler has written when it goes on
AfterAuthNoReturn(authErr) ==
    IF authErr # ErrNone THEN <<ErrorResponse(authErr)>> ELSE <<>>

\* GetBucketNotification
GetBucketNotification ==
    \E authErr \in {ErrNone, ErrAccessDenied}, bucket \in Buckets,
       notification \in BOOLEAN, copy \in BOOLEAN :
        LET rq == [handler |-> "GetBucketNotification", method |-> "GET",
                   path |-> <<Slash>> \o bucket, copySource |-> copy,
                   query |-> {}, authErr |-> authErr]
            w1 == AfterAuthNoReturn(authErr)
            rd == readNotificationConfig(bucket)
        IN  /\ UNCHANGED <<dump, writers, applied, cacheUp, cache, queues, tasks, exports, index, lockHolder, crashed>>
            /\ IF notification
               THEN IF rd.err # Nil /\ rd.err # errNoSuchNotifications
                    THEN Accept(rq, Append(w1, ErrorResponse(rd.err)),
                                {"configRead"}, "done")
                    ELSE Accept(rq,
                                Append(w1, Wrote(200, "config", "",
                                       IF rd.err # Nil THEN EmptyConfig ELSE rd.config,
                                       GarbageBody)),
                                {"configRead"}, "done")
               ELSE Accept(rq, w1, {"proxy"}, "upstream")

\* PutBucketNotification
PutBucketNotification ==
    \E authErr \in {ErrNone, ErrAccessDenied}, bucket \in Buckets,
       notification \in BOOLEAN, copy \in BOOLEAN,
       body \in {XmlMarshal(c) : c \in Configs} \cup {MalformedBody},
       setOk \in BOOLEAN :
        LET rq == [handler |-> "PutBucketNotification", method |-> "PUT",
                   path |-> <<Slash>> \o bucket, copySource |-> copy,
                   query |-> {}, authErr |-> authErr]
            w1 == AfterAuthNoReturn(authErr)
            parsed == ParseConfig(body)
            saved == saveNotificationConfig(parsed.config, bucket, setOk)
        IN  /\ UNCHANGED <<dump, writers, applied, cacheUp, queues, tasks, exports, index, lockHolder, crashed>>
            /\ IF notification
               THEN IF parsed.err # Nil
                    THEN /\ Accept(rq, Append(w1, ErrorResponse(ErrMalformedXML)),
                                   {}, "done")
                         /\ UNCHANGED cache
                    ELSE /\ cache' = saved.cache
                         /\ IF saved.err # Nil
                            THEN Accept(rq, Append(w1, ErrorResponse(saved.err)),
                                        {"configWrite"}, "done")
                            ELSE Accept(rq,
                                        Append(w1, Wrote(200, "status", "", {}, GarbageBody)),
                                        {"configWrite"}, "done")
               ELSE /\ Accept(rq, w1, {"proxy"}, "upstream")
                    /\ UNCHANGED cache

\* Search: the outcomes of the steps after authentication are inputs
SearchOutcomes == {"noSuchBucket", "accessDenied", "noQuery", "noClient",
                   "invalidSyntax", "found"}

Search ==
    \E authErr \in {ErrNone, ErrAccessDenied}, bucket \in Buckets,
       outcome \in SearchOutcomes :
        LET rq == [handler |-> "Search", method |-> "GET",
                   path |-> <<Slash>> \o bucket, copySource |-> FALSE,
                   query |-> {}, authErr |-> authErr]
        IN  /\ UNCHANGED <<dump, writers, applied, cacheUp, cache, queues, tasks, exports, index, lockHolder, crashed>>
            /\ IF authErr # ErrNone
               THEN Accept(rq, <<ErrorResponse(authErr)>>, {}, "done")
               ELSE CASE outcome = "noSuchBucket" ->
                           Accept(rq, <<ErrorResponse("ErrNoSuchBucket")>>, {}, "done")
                      [] outcome = "accessDenied" ->
                           Accept(rq, <<ErrorResponse(ErrAccessDenied)>>, {}, "done")
                      [] outcome = "noQuery" -> Accept(rq, <<>>, {}, "done")
                      [] outcome = "noClient" ->
                           Accept(rq, <<Wrote(504, "status", "", {}, GarbageBody)>>,
                                  {}, "done")
                      [] outcome = "invalidSyntax" ->
                           Accept(rq, <<Wrote(400, "error", "InvalidSyntax", {}, GarbageBody)>>,
                                  {}, "done")
                      [] OTHER ->
                           Accept(rq, <<Wrote(200, "search", "", {}, GarbageBody)>>,
                                  {"search"}, "done")

\* a route served by ReverseProxy() directly (object and admin requests); the
\* query string is read by handleNfsExport alone, whose inputs Launch draws
ProxyRequest ==
    \E method \in Methods, path \in Paths \ {PathBucket}, copy \in BOOLEAN :
        /\ Accept([handler |-> "ReverseProxy", method |-> method, path |-> path,
                   copySource |-> copy, query |-> {}, authErr |-> ErrNone],
                  <<>>, {"proxy"}, "upstream")
        /\ UNCHANGED <<dump, writers, applied, cacheUp, cache, queues, tasks, exports, index, lockHolder, crashed>>

\* proxy.ServeHTTP: the upstream gateway answers, an admin create-user
\* request with one of bodies
Responds(bodies) ==
    /\ ~crashed
    /\ pc = "upstream"
    /\ \E status \in Statuses, etag \in BOOLEAN, requestId \in BOOLEAN,
          body \in bodies \cup {GarbageBody} :
        \* only the hook's first case reads the body
        /\ (IsAdminUserPath(req.path) /\ status = 200) \/ body = GarbageBody
        /\ (IsAdminUserPath(req.path) /\ status = 200) => Len(tasks) < MaxTasks
        /\ resp' = [status |-> status, etag |-> etag, requestId |-> requestId,
                    body |-> body]
    /\ pc' = "modifyResponse"
    /\ UNCHANGED <<dump, writers, applied, cacheUp, cache, queues, req, action, pending, err, pushFailed, sendResult,
                   written, did, nreq, tasks, exports, index, lockHolder, crashed>>

UpstreamResponds == Responds({UserBody("u1", 1)})

\* ------------------------------------------------------- NFS export tasks
\* the goroutine started by "go handleNfsExport(clientReq, b)"
NewTask(rq, body) ==
    [pc |-> "handleNfsExport", method |-> rq.method, query |-> rq.query,
     body |-> body, connected |-> FALSE, writes |-> 0, wrote |-> FALSE,
     locked |-> FALSE, appends |-> 0, appended |-> FALSE]

\* fmt.Sprintf("export_%s", userId)
ExportObjName(userId) == <<"export_", userId>>

\* fmt.Sprintf("%%url \"rados://%s/%s\"\n", poolName, exportObjName)
ExportLine(poolName, exportObjName) == <<"%url", poolName, exportObjName>>

\* ------------------------------------------------- the response hook
\* a panic leaves the hook without returning: the handler is abandoned and
\* the upstream response is not copied to the client
Panicked ==
    /\ pc' = "panicked"
    /\ UNCHANGED <<pending, written>>

\* the head of sendEvent, up to the range statement
SendEventBegin(eventType) ==
    LET names == getObjectName(req)
        rd == readNotificationConfig(names.bucketName)
    IN  IF names.panic
        THEN Panicked /\ UNCHANGED err
        ELSE /\ err' = rd.err
             /\ IF rd.err # Nil
                THEN Panicked
                ELSE /\ pending' = Match(rd.config, eventType, names.objectName)
                     /\ pc' = "sendEvent"
                     /\ UNCHANGED written

ModifyResponse ==
    /\ ~crashed
    /\ pc = "modifyResponse"
    /\ action' = Classify(req, resp)
    /\ CASE action' = NfsExport ->
              /\ tasks' = Append(tasks, NewTask(req, resp.body))
              /\ did' = did \cup {"goHandleNfsExport"}
              /\ pc' = "forward"
              /\ UNCHANGED <<pending, err, written>>
         [] action' = NoAction ->
              /\ pc' = "forward"
              /\ UNCHANGED <<tasks, pending, err, written, did>>
         [] OTHER ->
              /\ SendEventBegin(action')
              /\ did' = did \cup {"sendEvent"}
              /\ UNCHANGED tasks
    /\ UNCHANGED <<dump, writers, applied, cacheUp, cache, queues, req, resp, pushFailed, sendResult, nreq,
                   exports, index, lockHolder, crashed>>

\* one iteration of "for targetID := range rulesMap[eventType].Match(objectName)"
Publish ==
    /\ ~crashed
    /\ pc = "sendEvent"
    /\ \E t \in pending :
        IF ~resp.requestId
        THEN \* resp.Header["X-Amz-Request-Id"][0] on a missing header
             /\ Panicked
             /\ UNCHANGED <<queues, pushFailed>>
        ELSE \E ok \in BOOLEAN :
             /\ queues' = RPush(t, NewEvent(req, resp, action), ok)
             /\ pushFailed' = (pushFailed \/ ~ok)
             /\ pending' = pending \ {t}
             /\ UNCHANGED <<pc, written>>
    /\ UNCHANGED <<dump, writers, applied, cacheUp, cache, req, resp, action, err, sendResult, did, nreq, tasks,
                   exports, index, lockHolder, crashed>>

\* a loop that is left after its first iteration
LoopDoneEarly == TRUE

\* the range loop of sendEvent has visited every matched target
LoopDone == pending = {}

\* "return err" of sendEvent; a non-nil error makes the proxy answer 502
SendEventReturns ==
    /\ ~crashed
    /\ pc = "sendEvent"
    /\ LoopDone
    /\ sendResult' = err
    /\ IF err = Nil
       THEN pc' = "forward" /\ UNCHANGED written
       ELSE /\ pc' = "done"
            /\ written' = Append(written, Wrote(502, "error", err, {}, GarbageBody))
    /\ UNCHANGED <<dump, writers, applied, cacheUp, cache, queues, req, resp, action, pending, err, pushFailed, did,
                   nreq, tasks, exports, index, lockHolder, crashed>>

\* the proxy copies the (possibly rewritten) response to the client
Forward ==
    /\ ~crashed
    /\ pc = "forward"
    /\ written' = Append(written, Wrote(resp.status, "upstream", "", {}, resp.body))
    /\ pc' = "done"
    /\ UNCHANGED <<dump, writers, applied, cacheUp, cache, queues, req, resp, action, pending, err, pushFailed,
                   sendResult, did, nreq, tasks, exports, index, lockHolder, crashed>>

\* ------------------------------------------------- the provisioner's steps
TaskVarsUnchanged ==
    UNCHANGED <<dump, writers, applied, cacheUp, cache, queues, pc, req, resp, action, pending, err, pushFailed,
                sendResult, written, did, nreq>>

TaskAt(i, where) == i \in 1..Len(tasks) /\ tasks[i].pc = where

\* handleNfsExport: only a PUT without subuser, key, quota or caps goes on
HandleNfsExport(i) ==
    /\ ~crashed
    /\ TaskAt(i, "handleNfsExport")
    /\ tasks' = [tasks EXCEPT ![i].pc =
                    IF tasks[i].query \cap QueryParams # {} THEN "done"
                    ELSE IF tasks[i].method = "PUT" THEN "addNfsExport"
                    ELSE "done"]
    /\ UNCHANGED <<exports, index, lockHolder, crashed>>
    /\ TaskVarsUnchanged

\* addNfsExport up to "defer ioctx.Destroy()": parse, guard, Keys[0], connect.
\* The errors of Connect and OpenIOContext are dropped: on a failed
\* connection every later operation of the task fails and changes nothing.
AddNfsExport(i) ==
    /\ ~crashed
    /\ TaskAt(i, "addNfsExport")
    /\ LET data == tasks[i].body IN
       IF ~data.valid \/ data.keys > 1
       THEN /\ tasks' = [tasks EXCEPT ![i].pc = "done"]
            /\ UNCHANGED crashed
       ELSE IF data.keys = 0
       THEN \* data.Keys[0] on an empty slice: the goroutine panics
            /\ tasks' = [tasks EXCEPT ![i].pc = "panicked"]
            /\ crashed' = TRUE
       ELSE \E connOk \in BOOLEAN :
            /\ tasks' = [tasks EXCEPT ![i].pc = "createNfsExportObj",
                                      ![i].connected = connOk]
            /\ UNCHANGED crashed
    /\ UNCHANGED <<exports, index, lockHolder>>
    /\ TaskVarsUnchanged

\* createNfsExportObj: WriteFull of the rendered export, its error dropped
CreateNfsExportObj(i) ==
    /\ ~crashed
    /\ TaskAt(i, "createNfsExportObj")
    /\ \E ok \in BOOLEAN :
        LET done == tasks[i].connected /\ ok
            name == ExportObjName(tasks[i].body.user_id)
        IN  /\ exports' = IF done
                          THEN [n \in DOMAIN exports \cup {name} |->
                                  IF n = name THEN tasks[i].body.user_id ELSE exports[n]]
                          ELSE exports
            /\ tasks' = [tasks EXCEPT ![i].pc = "LockExclusive",
                                      ![i].wrote = done,
                                      ![i].writes = @ + 1]
    /\ UNCHANGED <<index, lockHolder, crashed>>
    /\ TaskVarsUnchanged

\* ioctx.LockExclusive(..., 0, nil): takes the lock (no expiry) when it is
\* free and reports busy, without waiting, when another client holds it;
\* every task has a connection, hence a client, of its own.  The result is
\* dropped and the task goes on to Append either way.
LockExclusive(i) ==
    /\ ~crashed
    /\ TaskAt(i, "LockExclusive")
    /\ LET got == tasks[i].connected /\ lockHolder = 0 IN
        /\ lockHolder' = IF got THEN i ELSE lockHolder
        /\ tasks' = [tasks EXCEPT ![i].pc = "Append", ![i].locked = got]
    /\ UNCHANGED <<exports, index, crashed>>
    /\ TaskVarsUnchanged

\* ioctx.Append of one reference line, its error dropped
AppendExport(i) ==
    /\ ~crashed
    /\ TaskAt(i, "Append")
    /\ \E ok \in BOOLEAN :
        LET done == tasks[i].connected /\ ok IN
        /\ index' = IF done
                    THEN Append(index, ExportLine("nfs-ganesha",
                                       ExportObjName(tasks[i].body.user_id)))
                    ELSE index
        /\ tasks' = [tasks EXCEPT ![i].pc = "Unlock",
                                  ![i].appended = done,
                                  ![i].appends = @ + 1]
    /\ UNCHANGED <<exports, lockHolder, crashed>>
    /\ TaskVarsUnchanged

\* ioctx.Unlock: releases the lock only when this client holds it
Unlock(i) ==
    /\ ~crashed
    /\ TaskAt(i, "Unlock")
    /\ lockHolder' = IF lockHolder = i THEN 0 ELSE lockHolder
    /\ tasks' = [tasks EXCEPT ![i].pc = "done"]
    /\ UNCHANGED <<exports, index, crashed>>
    /\ TaskVarsUnchanged

\* ------------------------------------------------------- specification
Init ==
    /\ dump = NoDump
    /\ writers = [w \in 1..MaxWriters |-> NoWriter]
    /\ applied = <<>>
    /\ cacheUp = TRUE
    /\ cache = <<>>
    /\ queues = [t \in Targets |-> <<>>]
    /\ pc = "idle"
    /\ req = NoReq
    /\ resp = NoResp
    /\ action = NoAction
    /\ pending = {}
    /\ err = Nil
    /\ pushFailed = FALSE
    /\ sendResult = "unset"
    /\ written = <<>>
    /\ did = {}
    /\ nreq = 0
    /\ tasks = <<>>
    /\ exports = <<>>
    /\ index = <<>>
    /\ lockHolder = 0
    /\ crashed = FALSE

\* the proxy and its handlers; the goroutines it starts are left waiting
Next ==
    \/ GetBucketNotification
    \/ PutBucketNotification
    \/ Search
    \/ ProxyRequest
    \/ UpstreamResponds
    \/ ModifyResponse
    \/ Publish
    \/ SendEventReturns
    \/ Forward

Spec == Init /\ [][Next]_vars

\* "go handleNfsExport(clientReq, b)" with the request and body as inputs
Launch ==
    /\ ~crashed
    /\ Len(tasks) < MaxTasks
    /\ \E method \in {"PUT", "GET"}, query \in Queries, body \in UserBodies :
         tasks' = Append(tasks, NewTask([method |-> method, query |-> query], body))
    /\ UNCHANGED <<exports, index, lockHolder, crashed>>
    /\ TaskVarsUnchanged

\* the provisioning goroutines, running concurrently
NextNfs ==
    \/ Launch
    \/ \E i \in 1..MaxTasks : HandleNfsExport(i)
    \/ \E i \in 1..MaxTasks : AddNfsExport(i)
    \/ \E i \in 1..MaxTasks : CreateNfsExportObj(i)
    \/ \E i \in 1..MaxTasks : LockExclusive(i)
    \/ \E i \in 1..MaxTasks : AppendExport(i)
    \/ \E i \in 1..MaxTasks : Unlock(i)

SpecNfs == Init /\ [][NextNfs]_vars

\* the methods and query strings of admin user requests: each parameter
\* handleNfsExport looks for, some it does not look for, and a mix
AdminMethods == {"PUT", "GET", "POST", "DELETE"}
AdminQueries ==
    {{}, {"subuser"}, {"key"}, {"quota"}, {"caps"}, {"uid"}, {"uid", "caps"},
     {"uid", "display-name"}}

\* "go handleNfsExport(clientReq, b)" for an admin user response with
\* status 200 and the body of a single-key user
LaunchAny ==
    /\ ~crashed
    /\ Len(tasks) < MaxGateTasks
    /\ \E method \in AdminMethods, query \in AdminQueries :
         tasks' = Append(tasks, NewTask([method |-> method, query |-> query],
                                        UserBody("u1", 1)))
    /\ UNCHANGED <<exports, index, lockHolder, crashed>>
    /\ TaskVarsUnchanged

NextGate ==
    \/ LaunchAny
    \/ \E i \in 1..MaxTasks : HandleNfsExport(i)
    \/ \E i \in 1..MaxTasks : AddNfsExport(i)
    \/ \E i \in 1..MaxTasks : CreateNfsExportObj(i)
    \/ \E i \in 1..MaxTasks : LockExclusive(i)
    \/ \E i \in 1..MaxTasks : AppendExport(i)
    \/ \E i \in 1..MaxTasks : Unlock(i)

SpecGate == Init /\ [][NextGate]_vars

\* the Go scheduler lets every goroutine that can take a step take it
SpecNfsFair ==
    /\ SpecNfs
    /\ \A i \in 1..MaxTasks :
           /\ WF_vars(HandleNfsExport(i))
           /\ WF_vars(AddNfsExport(i))
           /\ WF_vars(CreateNfsExportObj(i))
           /\ WF_vars(LockExclusive(i))
           /\ WF_vars(AppendExport(i))
           /\ WF_vars(Unlock(i))

\* what the cache may hold for photos when the proxy starts: nothing, a
\* configuration, or a document that event.ParseConfig rejects
StoredCaches ==
    {<<>>} \cup {[k \in {ConfigKey(<<"photos">>)} |-> doc] :
                    doc \in {XmlMarshal(ConfigJpg), MalformedBody}}

InitStored ==
    /\ dump = NoDump
    /\ writers = [w \in 1..MaxWriters |-> NoWriter]
    /\ applied = <<>>
    /\ cacheUp = TRUE
    /\ cache \in StoredCaches
    /\ queues = [t \in Targets |-> <<>>]
    /\ pc = "idle"
    /\ req = NoReq
    /\ resp = NoResp
    /\ action = NoAction
    /\ pending = {}
    /\ err = Nil
    /\ pushFailed = FALSE
    /\ sendResult = "unset"
    /\ written = <<>>
    /\ did = {}
    /\ nreq = 0
    /\ tasks = <<>>
    /\ exports = <<>>
    /\ index = <<>>
    /\ lockHolder = 0
    /\ crashed = FALSE

\* the cache server stops answering / answers again
CacheFails ==
    /\ cacheUp
    /\ cacheUp' = FALSE
    /\ UNCHANGED <<dump, writers, applied, cache, queues, pc, req, resp, action, pending, err,
                   pushFailed, sendResult, written, did, nreq, tasks, exports,
                   index, lockHolder, crashed>>

CacheRecovers ==
    /\ ~cacheUp
    /\ cacheUp' = TRUE
    /\ UNCHANGED <<dump, writers, applied, cache, queues, pc, req, resp, action, pending, err,
                   pushFailed, sendResult, written, did, nreq, tasks, exports,
                   index, lockHolder, crashed>>

NextStored == Next \/ CacheFails \/ CacheRecovers

\* the proxy in front of a cache that already holds a document and that
\* may stop answering
SpecStored == InitStored /\ [][NextStored]_vars

\* --------------------------------------------------- keys and rule filters
PathNestedPng  == <<"/", "photos", "/", "img", "/", "a", ".png">>
PathJpgThenPng == <<"/", "photos", "/", "a", ".jpg", "/", "x", ".png">>
KeyPaths == {PathNestedPng, PathJpgThenPng, PathJpg}

\* an object request served by ReverseProxy(), on keys that tell the rule
\* filters apart
KeyRequest ==
    \E method \in {"PUT", "DELETE"}, path \in KeyPaths :
        /\ Accept([handler |-> "ReverseProxy", method |-> method, path |-> path,
                   copySource |-> FALSE, query |-> {}, authErr |-> ErrNone],
                  <<>>, {"proxy"}, "upstream")
        /\ UNCHANGED <<dump, writers, applied, cacheUp, cache, queues, tasks, exports,
                       index, lockHolder, crashed>>

NextMatch ==
    \/ KeyRequest
    \/ UpstreamResponds
    \/ ModifyResponse
    \/ Publish
    \/ SendEventReturns
    \/ Forward

SpecMatch == InitStored /\ [][NextMatch]_vars

\* ------------------------------------------------------ ops-log dump tool
\* Object names are sequences of symbols: "ops_" and ".log" are the literal
\* ends of a log name, "b" is a run of letters, "." a dot, "_" an
\* underscore, and an hour is a string of the form 2006-01-02-15.
Hours == {"2026-11-02-07", "2026-11-02-08"}

\* the symbols made of characters of the class [\w-] only
WordSymbols == {"b", "_"} \cup Hours

IsWord(seq) == seq # <<>> /\ \A k \in 1..Len(seq) : seq[k] \in WordSymbols

\* parseLogName: the groups of ^ops_([\w-]+)_(\d{4}-\d{2}-\d{2}-\d{2}).log$
\* when the name matches, an empty map (every lookup gives "") otherwise
parseLogName(log) ==
    IF /\ Len(log) >= 5
       /\ log[1] = "ops_"
       /\ IsWord(SubSeq(log, 2, Len(log) - 3))
       /\ log[Len(log) - 2] = "_"
       /\ log[Len(log) - 1] \in Hours
       /\ log[Len(log)] = ".log"
    THEN [Bucket |-> SubSeq(log, 2, Len(log) - 3), Date |-> log[Len(log) - 1]]
    ELSE [Bucket |-> <<>>, Date |-> ""]

\* the ops log of bucket "b" and of bucket "b.b" for one hour
OpsPlain(h)  == <<"ops_", "b", "_", h, ".log">>
OpsDotted(h) == <<"ops_", "b", ".", "b", "_", h, ".log">>
PoolNames == {OpsPlain(h) : h \in Hours} \cup {OpsDotted(h) : h \in Hours}

\* main up to ListObjects: the early returns, the clock reading, the listing
DumpStart ==
    /\ dump.pc = "main"
    /\ \E started \in BOOLEAN, now \in Hours, pool \in SUBSET PoolNames :
         dump' = [NoDump EXCEPT !.pc = IF started THEN "listing" ELSE "exit",
                                !.now = now,
                                !.listed = pool,
                                !.pool = pool,
                                !.todo = IF started THEN pool ELSE {}]
    /\ UNCHANGED <<writers, applied, cacheUp, cache, queues, pc, req, resp, action,
                   pending, err, pushFailed, sendResult, written, did, nreq, tasks,
                   exports, index, lockHolder, crashed>>

\* the callback of ListObjects on one object: Stat, parseLogName, the bulk
\* upload, Delete (whose error is dropped)
DumpObject ==
    /\ dump.pc = "listing"
    /\ \E oid \in dump.todo, statOk \in BOOLEAN, bulkOk \in BOOLEAN, delOk \in BOOLEAN :
         LET rest == [dump EXCEPT !.todo = @ \ {oid}] IN
         dump' = IF ~statOk
                 THEN [rest EXCEPT !.statFailed = @ \cup {oid}]
                 ELSE IF parseLogName(oid).Date = dump.now
                 THEN rest
                 ELSE IF ~bulkOk
                 THEN [rest EXCEPT !.uploaded = @ \cup {oid}]
                 ELSE [rest EXCEPT !.uploaded = @ \cup {oid},
                                   !.bulkOk = @ \cup {oid},
                                   !.pool = IF delOk THEN @ \ {oid} ELSE @]
    /\ UNCHANGED <<writers, applied, cacheUp, cache, queues, pc, req, resp, action,
                   pending, err, pushFailed, sendResult, written, did, nreq, tasks,
                   exports, index, lockHolder, crashed>>

\* ListObjects has visited every object: main returns
DumpExit ==
    /\ dump.pc = "listing"
    /\ dump.todo = {}
    /\ dump' = [dump EXCEPT !.pc = "exit"]
    /\ UNCHANGED <<writers, applied, cacheUp, cache, queues, pc, req, resp, action,
                   pending, err, pushFailed, sendResult, written, did, nreq, tasks,
                   exports, index, lockHolder, crashed>>

NextDump == DumpStart \/ DumpObject \/ DumpExit

SpecDump == Init /\ [][NextDump]_vars

\* ------------------------------------------------- concurrent config writers
\* PutBucketNotification with the notification marker, up to the parsed
\* body: authenticate, ParseConfig
PutParse(w) ==
    \E authErr \in {ErrNone, ErrAccessDenied}, bucket \in StoreBuckets,
       body \in {XmlMarshal(c) : c \in Configs} \cup {MalformedBody} :
        LET w1 == AfterAuthNoReturn(authErr)
            parsed == ParseConfig(body)
        IN  /\ writers[w].pc = "idle"
            /\ writers' = [writers EXCEPT ![w] =
                   IF parsed.err # Nil
                   THEN [pc |-> "done", bucket |-> bucket, conf |-> Nil,
                         written |-> Append(w1, ErrorResponse(ErrMalformedXML))]
                   ELSE [pc |-> "parsed", bucket |-> bucket, conf |-> parsed.config,
                         written |-> w1]]
            /\ UNCHANGED <<dump, applied, cacheUp, cache, queues, pc, req, resp, action,
                           pending, err, pushFailed, sendResult, written, did, nreq,
                           tasks, exports, index, lockHolder, crashed>>

\* the rest of PutBucketNotification: saveNotificationConfig and the answer
PutSave(w) ==
    \E setOk \in BOOLEAN :
        LET me == writers[w]
            saved == saveNotificationConfig(me.conf, me.bucket, setOk)
        IN  /\ me.pc = "parsed"
            /\ cache' = saved.cache
            /\ applied' = IF SetApplied(setOk) THEN Append(applied, w) ELSE applied
            /\ writers' = [writers EXCEPT ![w] =
                   [me EXCEPT !.pc = "done",
                              !.written = Append(me.written,
                                  IF saved.err # Nil THEN ErrorResponse(saved.err)
                                  ELSE Wrote(200, "status", "", {}, GarbageBody))]]
            /\ UNCHANGED <<dump, cacheUp, queues, pc, req, resp, action, pending, err,
                           pushFailed, sendResult, written, did, nreq, tasks,
                           exports, index, lockHolder, crashed>>

NextStore ==
    \/ \E w \in 1..MaxWriters : PutParse(w) \/ PutSave(w)
    \/ CacheFails
    \/ CacheRecovers

\* the config store under concurrent PutBucketNotification handlers
SpecStore == Init /\ [][NextStore]_vars

\* an admin user request served by ReverseProxy(), with its query string
AdminRequest ==
    \E method \in {"PUT", "GET"}, path \in {PathAdminUser, PathAdminUserSlash},
       query \in Queries :
        /\ Accept([handler |-> "ReverseProxy", method |-> method, path |-> path,
                   copySource |-> FALSE, query |-> query, authErr |-> ErrNone],
                  <<>>, {"proxy"}, "upstream")
        /\ UNCHANGED <<dump, writers, applied, cacheUp, cache, queues, tasks, exports, index, lockHolder, crashed>>

\* the gateway answers an admin user request
AdminResponds == Responds(UserBodies)

\* admin requests through the proxy, with the goroutines they start running
\* beside the request that started them
NextDetached ==
    \/ AdminRequest
    \/ AdminResponds
    \/ ModifyResponse
    \/ Forward
    \/ \E i \in 1..MaxTasks : HandleNfsExport(i)
    \/ \E i \in 1..MaxTasks : AddNfsExport(i)
    \/ \E i \in 1..MaxTasks : CreateNfsExportObj(i)
    \/ \E i \in 1..MaxTasks : LockExclusive(i)
    \/ \E i \in 1..MaxTasks : AppendExport(i)
    \/ \E i \in 1..MaxTasks : Unlock(i)

SpecDetached == Init /\ [][NextDetached]_vars

\* =================================================================== claims
EventNames == {ObjectCreatedPut, ObjectCreatedCopy, ObjectRemovedDelete}

\* the hook has classified the response of the current request
HookRan == resp # NoResp /\ pc \in {"sendEvent", "forward", "done", "panicked"}

\* the upstream response has been copied to the client
Forwarded == \E k \in 1..Len(written) : written[k].kind = "upstream"

\* how many events of request id were appended to the queue of target t
EventsOf(t, id) ==
    Cardinality({k \in 1..Len(queues[t]) : queues[t][k].RequestId = id})

\* the object key of a path-style request: all that follows "/<bucket>/"
ObjectKey(path) == SubSeq(path, 4, Len(path))

\* C1: every intercepted response takes the action of the first matching row
\* of the decision table (admin create-user and 200, copy-source header,
\* ETag and PUT and 200, DELETE and 204, otherwise nothing), and takes only
\* that action: a goroutine is started exactly for the first row, sendEvent
\* is called exactly for rows two to four.
C1_FirstMatchingRowWins ==
    HookRan =>
        LET admin  == req.path \in {PathAdminUser, PathAdminUserSlash}
                      /\ resp.status = 200
            copy   == req.copySource
            put    == resp.etag /\ req.method = "PUT" /\ resp.status = 200
            delete == req.method = "DELETE" /\ resp.status = 204
        IN  /\ admin => action = NfsExport
            /\ (~admin /\ copy) => action = ObjectCreatedCopy
            /\ (~admin /\ ~copy /\ put) => action = ObjectCreatedPut
            /\ (~admin /\ ~copy /\ ~put /\ delete) => action = ObjectRemovedDelete
            /\ (~admin /\ ~copy /\ ~put /\ ~delete) => action = NoAction
            /\ ("goHandleNfsExport" \in did) <=> (action = NfsExport)
            /\ ("sendEvent" \in did) <=> (action \in EventNames)
            /\ action = NfsExport =>
                   /\ \A t \in Targets : EventsOf(t, nreq) = 0
                   /\ tasks # <<>> /\ tasks[Len(tasks)].body = resp.body

\* an admin create-user response that also matches the copy and the put row
C1_Witness ==
    /\ HookRan
    /\ IsAdminUserPath(req.path) /\ resp.status = 200
    /\ req.copySource /\ req.method = "PUT" /\ resp.etag
    /\ action = NfsExport
    /\ pc = "done"

\* C2 (as claimed): with the rule {ObjectCreated:*, suffix .jpg, sqs:t1:q1}
\* stored for photos, a PUT of /photos/img/a.jpg answered 200 with an ETag
\* appends exactly one event to sqs:t1:q1, named ObjectCreated:Put and
\* carrying the key img/a.jpg.
C2_NestedKeyPublished ==
    (/\ pc = "done" /\ Forwarded
     /\ req.handler = "ReverseProxy"
     /\ req.method = "PUT" /\ req.path = PathNestedJpg /\ ~req.copySource
     /\ resp.status = 200 /\ resp.etag /\ resp.requestId
     /\ ~pushFailed
     /\ ConfigKey(<<"photos">>) \in DOMAIN cache
     /\ cache[ConfigKey(<<"photos">>)] = XmlMarshal(ConfigJpg))
    => /\ EventsOf(TargetQ1, nreq) = 1
       /\ \A k \in 1..Len(queues[TargetQ1]) :
              queues[TargetQ1][k].RequestId = nreq =>
                  /\ queues[TargetQ1][k].EventName = ObjectCreatedPut
                  /\ queues[TargetQ1][k].Key = <<"img", "/", "a", ".jpg">>

\* C3 (as claimed): for a bucket with no stored configuration sendEvent
\* publishes nothing, does not panic, and the response is forwarded.
C3_NoConfigIsSilent ==
    (/\ HookRan
     /\ action \in EventNames
     /\ ~getObjectName(req).panic
     /\ ConfigKey(getObjectName(req).bucketName) \notin DOMAIN cache)
    => /\ pc # "panicked"
       /\ \A t \in Targets : EventsOf(t, nreq) = 0
       /\ pc = "done" => Forwarded

\* C4 (as claimed): sendEvent never returns success after a failed append.
C4_PushFailureSurfaced ==
    (sendResult # "unset" /\ pushFailed) => sendResult # Nil

\* C5 (as claimed): for one classified mutation response every target
\* referenced by a rule matching the event type and the object key gets
\* exactly one event, and no other target gets any.
C5_FanOutExact ==
    (/\ pc = "done" /\ Forwarded
     /\ req.handler = "ReverseProxy"
     /\ action \in EventNames
     /\ resp.requestId /\ ~pushFailed
     /\ ConfigKey(<<"photos">>) \in DOMAIN cache)
    => \A t \in Targets :
           EventsOf(t, nreq) =
               IF t \in Match(ParseConfig(cache[ConfigKey(<<"photos">>)]).config,
                              action, ObjectKey(req.path))
               THEN 1 ELSE 0

\* C9 (as claimed): when authenticate returns an error code other than None
\* the handler writes that error and does nothing else.
C9_AuthFailureShortCircuits ==
    (req.authErr # ErrNone /\ req.handler # "none")
    => /\ pc = "done"
       /\ did = {}
       /\ written = <<ErrorResponse(req.authErr)>>

\* C10: every append of the notification path happens after the upstream
\* response was received and before it is copied to the client, and the
\* response is copied to the client only when no publish for it is pending.
C10_PublishBeforeForward ==
    [][/\ (queues' # queues) =>
              (resp # NoResp /\ resp' = resp /\ ~Forwarded /\ ~Forwarded')
       /\ (~Forwarded /\ Forwarded') =>
              (pending = {} /\ (action \in EventNames => sendResult = Nil))]_vars

\* a response forwarded after its event was appended
C10_Witness ==
    /\ pc = "done" /\ Forwarded
    /\ action \in EventNames
    /\ \E t \in Targets : EventsOf(t, nreq) = 1

\* C6 (as claimed): addNfsExport does nothing and does not crash for a user
\* record with no key or with two or more keys, and issues exactly one export
\* write and one index append for a record with one key.
C6_GuardedProvisioning ==
    /\ ~crashed
    /\ \A i \in 1..Len(tasks) :
           LET t == tasks[i] IN
           /\ (t.body.valid /\ t.body.keys # 1) =>
                  (t.pc # "panicked" /\ t.writes = 0 /\ t.appends = 0)
           /\ (t.pc = "done" /\ t.method = "PUT" /\ t.query \cap QueryParams = {}
               /\ t.body.valid /\ t.body.keys = 1) =>
                  (t.writes = 1 /\ t.appends = 1)

\* C7 (as claimed): at most one task is between LockExclusive and Unlock at
\* any time, and a task appends only while it holds the lock.
C7_AppendsMutuallyExclusive ==
    /\ Cardinality({i \in 1..Len(tasks) :
                       tasks[i].connected /\ tasks[i].pc \in {"Append", "Unlock"}}) <= 1
    /\ \A i \in 1..Len(tasks) :
           (tasks[i].connected /\ tasks[i].pc = "Append") => lockHolder = i

\* C8 (as claimed): a task whose export write failed appends no reference
\* line, so every line of the index refers to a written export object.
C8_FailedStepAborts ==
    /\ \A i \in 1..Len(tasks) : tasks[i].appended => tasks[i].wrote
    /\ \A k \in 1..Len(index) : index[k][3] \in DOMAIN exports

\* C11 (as claimed): for an admin create-user response with status 200 the
\* client gets the upstream body unchanged, and the delivery neither waits
\* for the provisioning task nor is changed by it, whatever the task does.
C11_ExportDetached ==
    /\ (pc = "forward" /\ action = NfsExport) => ENABLED Forward
    /\ (pc = "done" /\ action = NfsExport) =>
           written = <<Wrote(200, "upstream", "", {}, resp.body)>>

\* C12 (as claimed): a stored configuration that fails to parse is treated
\* by the notification path like a missing one: nothing is published and the
\* proxied response is still delivered.
C12_MalformedLikeMissing ==
    (/\ HookRan
     /\ action \in EventNames
     /\ ~getObjectName(req).panic
     /\ ConfigKey(getObjectName(req).bucketName) \in DOMAIN cache
     /\ ParseConfig(cache[ConfigKey(getObjectName(req).bucketName)]).err # Nil)
    => /\ pc # "panicked"
       /\ \A t \in Targets : EventsOf(t, nreq) = 0
       /\ pc = "done" => Forwarded

\* the writer whose Set reached the cache last for a bucket, 0 when none did
LastApplied(bucket) ==
    LET ks == {k \in 1..Len(applied) : writers[applied[k]].bucket = bucket}
    IN  IF ks = {} THEN 0
        ELSE applied[CHOOSE k \in ks : \A j \in ks : j <= k]

C14_OnlyMissingIsEmpty ==
    [][(/\ nreq' = nreq + 1
        /\ req'.handler = "GetBucketNotification"
        /\ "configRead" \in did')
       => LET key == ConfigKey(SubSeq(req'.path, 2, Len(req'.path)))
              last == written'[Len(written')]
          IN  IF cacheUp /\ key \notin DOMAIN cache
              THEN last = Wrote(200, "config", "", EmptyConfig, GarbageBody)
              ELSE (~cacheUp \/ ParseConfig(cache[key]).err # Nil)
                   => /\ last.kind = "error"
                      /\ \A k \in 1..Len(written') : written'[k].status # 200]_vars

\* C17 (as claimed): saveNotificationConfig returns an error when the write
\* does not reach the cache, and a PutBucketNotification that answered 200,
\* with no other writer on its bucket, is followed by a Get that returns its
\* document.
C17_OkMeansStored ==
    /\ \A ok \in BOOLEAN :
           ~SetApplied(ok) =>
               saveNotificationConfig(ConfigJpg, <<"photos">>, ok).err # Nil
    /\ \A w \in 1..MaxWriters :
           (/\ writers[w].pc = "done"
            /\ writers[w].written # <<>>
            /\ writers[w].written[Len(writers[w].written)].status = 200
            /\ cacheUp
            /\ \A v \in 1..MaxWriters \ {w} : writers[v].bucket # writers[w].bucket)
           => readNotificationConfig(writers[w].bucket) =
                  [config |-> writers[w].conf, err |-> Nil]

\* the rule's prefix and suffix filters fit the key
FiltersFit(rule, key) == HasPrefix(key, rule.Prefix) /\ HasSuffix(key, rule.Suffix)

\* C15 (as claimed): a target receives an event only from a rule that
\* subscribes to the event type and whose prefix and suffix filters fit the
\* object key; with the single rule {ObjectCreated:*, suffix .jpg} a PUT of
\* key img/a.png publishes nothing; a subscribed rule with empty filters
\* reaches its targets for every key.
C15_FiltersOnKey ==
    (/\ HookRan /\ pc \in {"forward", "done"}
     /\ action \in EventNames
     /\ cacheUp
     /\ readNotificationConfig(<<"photos">>).err = Nil)
    => LET nConfig == readNotificationConfig(<<"photos">>).config
           key == ObjectKey(req.path)
       IN  /\ \A t \in Targets :
                  EventsOf(t, nreq) > 0 =>
                      \E r \in nConfig :
                          /\ t \in r.Targets
                          /\ \E n \in r.Events : action \in Expand(n)
                          /\ FiltersFit(r, key)
           /\ (req.path = PathNestedPng /\ nConfig = ConfigJpg)
                  => \A t \in Targets : EventsOf(t, nreq) = 0
           /\ \A r \in nConfig :
                  (/\ r.Prefix = <<>> /\ r.Suffix = <<>>
                   /\ \E n \in r.Events : action \in Expand(n)
                   /\ ~pushFailed)
                  => \A t \in r.Targets : EventsOf(t, nreq) > 0

\* the reference lines of the shared index that name the export of user
LinesOf(user) ==
    {k \in 1..Len(index) : index[k] = ExportLine("nfs-ganesha", ExportObjName(user))}

\* C16 (as claimed): however many times the provisioner ran for the
\* single-key user u1, the store holds at most one export object of u1 and
\* the shared index at most one reference line for it.
C16_ProvisioningIdempotent ==
    /\ Cardinality({n \in DOMAIN exports : exports[n] = "u1"}) <= 1
    /\ Cardinality(LinesOf("u1")) <= 1

\* C18 (as claimed): under fair scheduling every task that reaches the
\* index-append step finishes, and a lock that is held is released: the
\* lock is never held forever.
C18_LockEventuallyFree ==
    \A i \in 1..MaxTasks :
        /\ TaskAt(i, "LockExclusive") ~> TaskAt(i, "done")
        /\ (lockHolder = i) ~> (lockHolder # i)

\* the request is a user-level creation: PUT with none of the four parameters
UserLevelPut(t) ==
    t.method = "PUT" /\ t.query \cap {"subuser", "key", "quota", "caps"} = {}

\* C19: handleNfsExport goes on to addNfsExport if and only if the method is
\* PUT and the query has none of subuser, key, quota, caps; a task of any
\* other request never writes an export object nor appends an index line.
C19_OnlyUserLevelPut ==
    [][\A i \in 1..Len(tasks') :
          /\ (i <= Len(tasks) /\ tasks[i].pc = "handleNfsExport"
              /\ tasks'[i].pc # "handleNfsExport")
             => (tasks'[i].pc = "addNfsExport" <=> UserLevelPut(tasks[i]))
          /\ ~UserLevelPut(tasks'[i])
             => /\ tasks'[i].pc \in {"handleNfsExport", "done"}
                /\ tasks'[i].writes = 0 /\ tasks'[i].appends = 0
                /\ exports' = <<>> \/ \E j \in 1..Len(tasks') : tasks'[j].wrote
                /\ index' = <<>> \/ \E j \in 1..Len(tasks') : tasks'[j].appended]_vars

\* a PUT with a parameter handleNfsExport does not look for was provisioned
C19_Witness ==
    /\ \E i \in 1..Len(tasks) :
           /\ tasks[i].method = "PUT" /\ tasks[i].query = {"uid"}
           /\ tasks[i].wrote /\ tasks[i].appended
    /\ index # <<>>

\* C20 (as claimed): for a response on a bucket-level path that the
\* classifier sends to the notification path, sendEvent does not panic,
\* publishes no event, and the proxied response is delivered.
C20_BucketPathSafe ==
    (HookRan /\ action \in EventNames /\ req.path = PathBucket)
    => /\ pc # "panicked"
       /\ \A t \in Targets : EventsOf(t, nreq) = 0
       /\ pc = "done" => Forwarded

\* the hour an object name carries, "" when it carries none
NameHour(log) ==
    IF Len(log) >= 2 /\ log[Len(log) - 1] \in Hours THEN log[Len(log) - 1] ELSE ""

\* C21 (as claimed): an object leaves the pool only after its bulk upload
\* returned without error; an object whose name carries the current hour is
\* neither uploaded nor deleted; an object whose stat or upload failed stays
\* in the pool.
C21_DeleteOnlyAfterUpload ==
    \A oid \in dump.listed :
        /\ oid \notin dump.pool => oid \in dump.bulkOk
        /\ NameHour(oid) = dump.now =>
               (oid \notin dump.uploaded /\ oid \in dump.pool)
        /\ (oid \in dump.statFailed \/ oid \in dump.uploaded \ dump.bulkOk) =>
               oid \in dump.pool
====
